---------------------------- MODULE Spec2Model ----------------------------
(***************************************************************************)
(* Model of project/utils/sound.py: the synthesis function gen_custom_freq *)
(* with its functools.lru_cache, the Sound and SoundSeq classes with their *)
(* transport operations over the simpleaudio backend, and the + / *        *)
(* composition operators.                                                   *)
(*                                                                          *)
(* Conventions.                                                             *)
(*  - Python's None is the empty tuple <<>>; a present value x is <<x>>.    *)
(*  - A float that is not an integer (seconds, vol_factor, cutoff_factor)   *)
(*    is a fraction <<num, den>>; int(seconds * fs) is (num * fs) \div den. *)
(*  - sin, cos and log have no integer form.  A sample of the synthesized   *)
(*    wave is kept symbolic: the tuple of everything the code computes it   *)
(*    from (wave kind, frequencies, strength, fs, index, volume, envelope   *)
(*    position).  Two samples are equal exactly when the code computed      *)
(*    them from the same inputs.                                            *)
(*  - A PlayObject is named by a handle id.  Ids of handles that are        *)
(*    neither active on the backend nor referenced by any object are        *)
(*    reused, which keeps the state space finite.                           *)
(***************************************************************************)
EXTENDS Integers, Sequences, FiniteSets, TLC

VARIABLES
    sounds,     \* Sound objects: [SoundIds -> Sound record]
    seqs,       \* SoundSeq objects: function from the allocated SeqIds to records
    backend,    \* simpleaudio: [HandleIds -> BOOLEAN], TRUE while the handle plays
    waiting,    \* the caller blocked in wait_done: <<>> or <<object id, handle>>
    last,       \* the last call the caller made and how it ended
    cache,      \* lru_cache of gen_custom_freq: entries, least recently used first
    requested,  \* how many of the distinct other requests have been made
    since,      \* the distinct keys requested since the probe key's last request
    operands,   \* the operands A, B, C of a composition; the arguments of a call
    results,    \* the values computed from the operands, by expression name; the
                \* values gen_custom_freq returned, by key
    threads,    \* the threads inside the lru_cache wrapper: position and key
    syntheses,  \* how many times the body of gen_custom_freq ran, by key
    heap,       \* the buffer objects by identity and who references them
    loader,     \* the import of the module: the pickle file and the start-up block
    loop        \* the polling loop of instrument.py: its position, the sensors, the
                \* reading taken and the calls of play() issued in the current press

vars ==
    <<sounds, seqs, backend, waiting, last, cache, requested, since, operands, results,
      threads, syntheses, heap, loader, loop>>

None == <<>>
Some(x) == <<x>>

-----------------------------------------------------------------------------
(* Bounds of the model and the input sets the operations draw from.        *)

SoundIds == {"s1", "s2"}
SeqIds == {"q1"}
ObjectIds == SoundIds \cup SeqIds
MaxHandles == 2
HandleIds == ObjectIds \X (1..MaxHandles)
MaxMembers == 2
MaxDeviation == 1

FsValues == {8000, 11025}
Durations == {<<1, 4000>>, <<1, 2000>>}
Cutoffs == {<<1, 100>>, <<1, 8000>>}
PitchArgs == {<<"num", 440>>, <<"name", "A5">>}
VolArgs == {<<1, 5>>, <<1, 2>>}
InstrumentArgs == {None, <<"num", 1>>}
StrengthArgs == {1, 10}

-----------------------------------------------------------------------------
(* Fractions.                                                              *)

RECURSIVE Gcd(_, _)
Gcd(a, b) == IF b = 0 THEN a ELSE Gcd(b, a % b)

Norm(r) == LET g == Gcd(r[1], r[2]) IN IF g = 0 THEN r ELSE <<r[1] \div g, r[2] \div g>>

RatAdd(a, b) == Norm(<<a[1] * b[2] + b[1] * a[2], a[2] * b[2]>>)

\* int(r * k) for a fraction r (denominator > 0) and an integer k: int()
\* truncates towards zero
IntOfProduct(r, k) ==
    IF r[1] * k >= 0 THEN (r[1] * k) \div r[2] ELSE -((-(r[1] * k)) \div r[2])

RECURSIVE Flatten(_)
Flatten(ss) == IF ss = <<>> THEN <<>> ELSE Head(ss) \o Flatten(Tail(ss))


Min(a, b) == IF a < b THEN a ELSE b

Abs(x) == IF x < 0 THEN -x ELSE x

-----------------------------------------------------------------------------
(* The pitch table (the entries the model uses; all are whole numbers of   *)
(* Hz in the source).                                                      *)

NoteNames == {"A1", "A2", "A3", "G4", "A4", "A5", "A6"}

NOTE == [name \in NoteNames |->
            CASE name = "A1" -> 55
              [] name = "A2" -> 110
              [] name = "A3" -> 220
              [] name = "G4" -> 392
              [] name = "A4" -> 440
              [] name = "A5" -> 880
              [] name = "A6" -> 1760]

-----------------------------------------------------------------------------
(* gen_custom_freq.  Arguments: frequency a number, seconds a fraction,    *)
(* vol_factor a fraction, fs a number, instrument <<"none">>,              *)
(* <<"num", x>> or <<"name", s>>, instrument_strength a number,            *)
(* cutoff_factor a fraction.  The result is [err, audio]: err is "" and    *)
(* audio the byte string, or err names the exception raised.               *)

DefaultCutoffFactor == <<1, 100>>
DefaultFs == 8000
DefaultVolFactor == <<1, 5>>

\* lines 57-66: the instrument argument resolved to the wave function
WaveOf(frequency, instrument, instrument_strength) ==
    CASE instrument[1] = "name" ->
            IF instrument[2] \in NoteNames
            THEN <<"fm", NOTE[instrument[2]], instrument_strength, frequency>>
            ELSE <<"sin", frequency>>
      [] instrument[1] = "num" ->
            <<"fm", Abs(instrument[2]), instrument_strength, frequency>>
      [] OTHER -> <<"sin", frequency>>

\* line 79: x = math.log(i / cutoff * 7 + 1) * k, kept as the ramp position
RampValue(i, cutoff) == <<"ramp", i, cutoff>>

\* the loop body without "dynamics[n - i - 1] = x": only the head ramp
RampStep_HeadOnly(d, i, n, cutoff) == [d EXCEPT ![i + 1] = RampValue(i, cutoff)]

\* lines 78-81: the loop body for index i (0-based); d is 1-based here
RampStep(d, i, n, cutoff) ==
    LET x == RampValue(i, cutoff)
        d1 == [d EXCEPT ![n - i] = x]
    IN  [d1 EXCEPT ![i + 1] = x]

RECURSIVE RampLoop(_, _, _, _)
RampLoop(d, i, n, cutoff) ==
    IF i >= cutoff THEN d ELSE RampLoop(RampStep(d, i, n, cutoff), i + 1, n, cutoff)

\* lines 75-81: dynamics
Dynamics(n, fs, cutoff_factor) ==
    LET cutoff == Min(n, IntOfProduct(cutoff_factor, fs))
    IN  RampLoop([i \in 1..n |-> <<"one">>], 0, n, cutoff)

\* line 82: one 16-bit sample as its two little-endian bytes
SampleBytes(sample) == << <<"lo", sample>>, <<"hi", sample>> >>

\* lines 72, 74: max(map(abs, note)) is 0 when every sample of the wave is
\* exactly 0: the sine of frequency 0, and the sine of one sample (sin(0))
WaveIsZero(wave, n) == wave[1] = "sin" /\ (wave[2] = 0 \/ n = 1)

GenCustomFreq(frequency, seconds, vol_factor, fs, instrument, instrument_strength, cutoff_factor) ==
    LET wave == WaveOf(frequency, instrument, instrument_strength)
        n == IntOfProduct(seconds, fs)
        dyn == Dynamics(n, fs, cutoff_factor)
        sample(i) == <<wave, fs, i, vol_factor, dyn[i + 1]>>
    IN  IF n <= 0 THEN [err |-> "ValueError", audio |-> <<>>]
        ELSE IF WaveIsZero(wave, n) THEN [err |-> "ZeroDivisionError", audio |-> <<>>]
        ELSE [err |-> "",
              audio |-> Flatten([i \in 1..n |-> SampleBytes(sample(i - 1))])]

-----------------------------------------------------------------------------
(* Sound: the parts of its methods that touch only the object's fields.    *)
(* A method that can raise returns [obj, err].                             *)

ZeroByte == <<"zero">>

ByteArray(len) == [i \in 1..len |-> ZeroByte]

\* "for i, a in enumerate(new_audio): self.audio[i] = a": the bytes that fit
\* are stored before the first index past the end raises IndexError
CopyInto(audio, new_audio) ==
    [err |-> IF Len(new_audio) > Len(audio) THEN "IndexError" ELSE "",
     audio |-> [i \in 1..Len(audio) |->
                   IF i <= Len(new_audio) THEN new_audio[i] ELSE audio[i]]]

BlankSound ==
    [pitch |-> <<"unset">>, instrument |-> <<"unset">>, vol_factor |-> <<0, 1>>,
     instrument_strength |-> 0, cutoff_factor |-> <<0, 1>>, seconds |-> <<0, 1>>,
     fs |-> 0, size |-> 0, audio |-> <<>>, player |-> None]

SetPitch(s, pitch) ==
    CASE pitch[1] = "name" ->
            IF pitch[2] \in NoteNames
            THEN [s EXCEPT !.pitch = <<"num", NOTE[pitch[2]]>>]
            ELSE s
      [] OTHER -> [s EXCEPT !.pitch = <<"num", Abs(pitch[2])>>]

SetInstrument(s, instrument) ==
    CASE instrument = None -> [s EXCEPT !.instrument = <<"none">>]
      [] instrument # None /\ instrument[1] = "name" ->
            IF instrument[2] \in NoteNames
            THEN [s EXCEPT !.instrument = <<"num", NOTE[instrument[2]]>>]
            ELSE s
      [] OTHER -> [s EXCEPT !.instrument = <<"num", Abs(instrument[2])>>]

SetInstrumentStrength(s, strength) == [s EXCEPT !.instrument_strength = strength]

SetVolume(s, vol) == [s EXCEPT !.vol_factor = vol]

SetCutoffFactor(s, factor) == [s EXCEPT !.cutoff_factor = factor]

\* update_audio: the cutoff_factor argument is not passed, so gen_custom_freq
\* runs with its default
UpdateAudio(s) ==
    IF s.pitch[1] = "unset" \/ s.instrument[1] = "unset"
    THEN [obj |-> s, err |-> "AttributeError"]
    ELSE LET g == GenCustomFreq(s.pitch[2], s.seconds, s.vol_factor, s.fs,
                                s.instrument, s.instrument_strength,
                                DefaultCutoffFactor)
             c == CopyInto(s.audio, g.audio)
         IN  IF g.err # "" THEN [obj |-> s, err |-> g.err]
             ELSE [obj |-> [s EXCEPT !.audio = c.audio], err |-> c.err]

\* change_duration after its is_playing()/stop() prefix; fs = None is <<>>.
\* bytearray of a negative length raises ValueError before audio, seconds
\* and fs are assigned
ChangeDurationFields(s, seconds, fsArg) ==
    LET fs == IF fsArg = None THEN s.fs ELSE fsArg[1]
        size == IntOfProduct(seconds, fs)
    IN  IF size < 0
        THEN [obj |-> [s EXCEPT !.player = None, !.size = size], err |-> "ValueError"]
        ELSE UpdateAudio([s EXCEPT !.player = None, !.size = size,
                                   !.audio = ByteArray(size * 2),
                                   !.seconds = seconds, !.fs = fs])

\* __init__ with bg_play = None
NewSound(pitch, seconds, vol_factor, fs, instrument, instrument_strength, cutoff_factor) ==
    LET s1 == SetPitch(BlankSound, pitch)
        s2 == SetInstrument(s1, instrument)
        s3 == SetVolume(s2, vol_factor)
        s4 == SetInstrumentStrength(s3, instrument_strength)
        s5 == SetCutoffFactor(s4, cutoff_factor)
        s6 == [s5 EXCEPT !.seconds = seconds, !.fs = fs]
    IN  ChangeDurationFields(s6, seconds, Some(fs))


-----------------------------------------------------------------------------
(* The simpleaudio backend as the classes use it.  A handle <<o, k>> is    *)
(* the k-th live PlayObject made from object o's buffer; backend[h] is     *)
(* TRUE while the submission plays.                                        *)

Object(o) == IF o \in SoundIds THEN sounds[o] ELSE seqs[o]

\* the handles some object's player field, or the blocked wait_done, holds
Referenced(ss, qs, w) ==
    {ss[o].player[1] : o \in {x \in DOMAIN ss : ss[x].player # None}}
      \cup {qs[o].player[1] : o \in {x \in DOMAIN qs : qs[x].player # None}}
      \cup (IF w = None THEN {} ELSE {w[2]})

FreeSlots(b, ss, qs, w, o) ==
    {k \in 1..MaxHandles : ~b[<<o, k>>] /\ <<o, k>> \notin Referenced(ss, qs, w)}

\* sa.play_buffer(audio, 1, 2, fs) succeeding: the new PlayObject
PlayBuffer(b, ss, qs, w, o) ==
    LET free == FreeSlots(b, ss, qs, w, o)
    IN  <<o, CHOOSE k \in free : \A j \in free : k <= j>>

\* PlayObject.is_playing()
HandleIsPlaying(b, h) == b[h]

\* PlayObject.stop()
HandleStop(b, h) == [b EXCEPT ![h] = FALSE]

\* is_playing() of either class
IsPlaying(obj, b) ==
    IF obj.player # None THEN HandleIsPlaying(b, obj.player[1]) ELSE FALSE

\* stop() whose test of the player is inverted: a held handle is left alone
StopFields_Inverted(obj, b) == [obj |-> obj, backend |-> b]

\* stop() of either class: [obj, backend]
StopFields(obj, b) ==
    IF obj.player # None
    THEN [obj |-> [obj EXCEPT !.player = None], backend |-> HandleStop(b, obj.player[1])]
    ELSE [obj |-> obj, backend |-> b]

\* play and change_duration without the stop of a playing object
StopIfPlaying_Skipped(obj, b) == [obj |-> obj, backend |-> b]

\* "if self.is_playing(): self.stop()" of play and change_duration
StopIfPlaying(obj, b) ==
    IF IsPlaying(obj, b) THEN StopFields(obj, b) ELSE [obj |-> obj, backend |-> b]

\* the record of a call: the method, the object, an argument (for play and
\* stop: what is_playing() answered when the call began) and the exception
Call(op, o, arg, err) == [op |-> op, obj |-> o, arg |-> arg, err |-> err]

Was(obj, b) == IF IsPlaying(obj, b) THEN "playing" ELSE "idle"

Ready == waiting = None

-----------------------------------------------------------------------------
(* Sound: the caller's operations.                                         *)

SoundSetter(id, op, s) ==
    /\ Ready
    /\ sounds' = [sounds EXCEPT ![id] = s]
    /\ last' = Call(op, id, "", "")
    /\ UNCHANGED <<seqs, backend, waiting, cache, requested, since, operands, results, threads, syntheses, heap, loader, loop>>

SoundSetPitch(id, pitch) == SoundSetter(id, "set_pitch", SetPitch(sounds[id], pitch))

SoundSetInstrument(id, instrument) ==
    SoundSetter(id, "set_instrument", SetInstrument(sounds[id], instrument))

SoundSetInstrumentStrength(id, strength) ==
    SoundSetter(id, "set_instrument_strength", SetInstrumentStrength(sounds[id], strength))

SoundSetVolume(id, vol) == SoundSetter(id, "set_volume", SetVolume(sounds[id], vol))

SoundSetCutoffFactor(id, factor) ==
    SoundSetter(id, "set_cutoff_factor", SetCutoffFactor(sounds[id], factor))

\* change_duration without its closing update_audio(): the zeroed buffer stays
SoundChangeDuration_KeepsZeros(id, seconds, fsArg) ==
    /\ Ready
    /\ LET st == StopIfPlaying(sounds[id], backend)
           fs == IF fsArg = None THEN st.obj.fs ELSE fsArg[1]
           size == IntOfProduct(seconds, fs)
       IN  /\ sounds' = [sounds EXCEPT ![id] = [st.obj EXCEPT !.player = None, !.size = size,
                                                              !.audio = ByteArray(size * 2),
                                                              !.seconds = seconds, !.fs = fs]]
           /\ backend' = st.backend
           /\ last' = Call("change_duration", id, "", "")
    /\ UNCHANGED <<seqs, waiting, cache, requested, since, operands, results, threads, syntheses, heap, loader, loop>>

SoundChangeDuration(id, seconds, fsArg) ==
    /\ Ready
    /\ LET st == StopIfPlaying(sounds[id], backend)
           r == ChangeDurationFields(st.obj, seconds, fsArg)
       IN  /\ sounds' = [sounds EXCEPT ![id] = r.obj]
           /\ backend' = st.backend
           /\ last' = Call("change_duration", id, "", r.err)
    /\ UNCHANGED <<seqs, waiting, cache, requested, since, operands, results, threads, syntheses, heap, loader, loop>>

SoundUpdateAudio(id) ==
    /\ Ready
    /\ LET r == UpdateAudio(sounds[id])
       IN  /\ sounds' = [sounds EXCEPT ![id] = r.obj]
           /\ last' = Call("update_audio", id, "", r.err)
    /\ UNCHANGED <<seqs, backend, waiting, cache, requested, since, operands, results, threads, syntheses, heap, loader, loop>>

\* play(): play_buffer either returns a PlayObject or raises SimpleaudioError
SoundPlay(id) ==
    /\ Ready
    /\ LET st == StopIfPlaying(sounds[id], backend)
           ss == [sounds EXCEPT ![id] = st.obj]
           h == PlayBuffer(st.backend, [ss EXCEPT ![id].player = None], seqs, waiting, id)
       IN  \/ /\ FreeSlots(st.backend, [ss EXCEPT ![id].player = None], seqs, waiting, id) # {}
              /\ sounds' = [ss EXCEPT ![id].player = Some(h)]
              /\ backend' = [st.backend EXCEPT ![h] = TRUE]
              /\ last' = Call("play", id, Was(sounds[id], backend), "")
           \/ /\ sounds' = ss
              /\ backend' = st.backend
              /\ last' = Call("play", id, Was(sounds[id], backend), "SimpleaudioError")
    /\ UNCHANGED <<seqs, waiting, cache, requested, since, operands, results, threads, syntheses, heap, loader, loop>>

SoundStop(id) ==
    /\ Ready
    /\ LET st == StopFields(sounds[id], backend)
       IN  /\ sounds' = [sounds EXCEPT ![id] = st.obj]
           /\ backend' = st.backend
    /\ last' = Call("stop", id, Was(sounds[id], backend), "")
    /\ UNCHANGED <<seqs, waiting, cache, requested, since, operands, results, threads, syntheses, heap, loader, loop>>

\* wait_done(): returns at once with no player, else blocks in
\* PlayObject.wait_done() of the handle it read
SoundWaitDone(id) ==
    /\ Ready
    /\ IF sounds[id].player # None
       THEN /\ waiting' = <<id, sounds[id].player[1]>>
            /\ last' = Call("wait_done", id, "", "blocked")
       ELSE /\ waiting' = None
            /\ last' = Call("wait_done", id, "", "")
    /\ UNCHANGED <<sounds, seqs, backend, cache, requested, since, operands, results, threads, syntheses, heap, loader, loop>>

\* wait_done() without its "self.player = None"
SoundWaitReturn_KeepsPlayer(id) ==
    /\ waiting # None
    /\ waiting[1] = id
    /\ ~HandleIsPlaying(backend, waiting[2])
    /\ waiting' = None
    /\ last' = Call("wait_done", id, "blocked", "")
    /\ UNCHANGED <<sounds, seqs, backend, cache, requested, since, operands, results, threads, syntheses, heap, loader, loop>>

\* PlayObject.wait_done() returns once the handle no longer plays; then
\* "self.player = None"
SoundWaitReturn(id) ==
    /\ waiting # None
    /\ waiting[1] = id
    /\ ~HandleIsPlaying(backend, waiting[2])
    /\ sounds' = [sounds EXCEPT ![id].player = None]
    /\ waiting' = None
    /\ last' = Call("wait_done", id, "blocked", "")
    /\ UNCHANGED <<seqs, backend, cache, requested, since, operands, results, threads, syntheses, heap, loader, loop>>

\* the backend reaches the end of a submitted buffer
BackendFinish(h) ==
    /\ backend[h]
    /\ backend' = [backend EXCEPT ![h] = FALSE]
    /\ UNCHANGED <<sounds, seqs, waiting, last, cache, requested, since, operands, results, threads, syntheses, heap, loader, loop>>


-----------------------------------------------------------------------------
(* SoundSeq.  The member list holds references to Sound objects (their     *)
(* ids); ss is the state of the Sound objects the members are read from.   *)

RECURSIVE SumSeconds(_, _)
SumSeconds(members, ss) ==
    IF members = <<>> THEN <<0, 1>>
    ELSE RatAdd(ss[Head(members)].seconds, SumSeconds(Tail(members), ss))

RECURSIVE SumSize(_, _)
SumSize(members, ss) ==
    IF members = <<>> THEN 0 ELSE ss[Head(members)].size + SumSize(Tail(members), ss)

\* b''.join([s.audio for s in self.sounds])
JoinAudio(members, ss) == Flatten([i \in 1..Len(members) |-> ss[members[i]].audio])

\* SoundSeq.update_audio: [obj, err]
SeqUpdateAudioFields(q, ss) ==
    LET c == CopyInto(q.audio, JoinAudio(q.sounds, ss))
    IN  [obj |-> [q EXCEPT !.audio = c.audio], err |-> c.err]

\* SoundSeq.change_duration that recomputes size and seconds but leaves
\* the buffer as it was
SeqChangeDurationFields_KeepsBuffer(q, ss) ==
    [obj |-> [q EXCEPT !.size = SumSize(q.sounds, ss), !.seconds = SumSeconds(q.sounds, ss)],
     err |-> ""]

\* SoundSeq.change_duration after its is_playing()/stop() prefix
SeqChangeDurationFields(q, ss) ==
    LET size == SumSize(q.sounds, ss)
    IN  SeqUpdateAudioFields([q EXCEPT !.audio = ByteArray(size * 2), !.size = size,
                                       !.seconds = SumSeconds(q.sounds, ss)], ss)

\* SoundSeq.__init__: every element of the list is a Sound here
NewSeq(members, fs, ss) ==
    SeqChangeDurationFields([sounds |-> members, fs |-> fs, size |-> 0,
                             seconds |-> <<0, 1>>, audio |-> <<>>, player |-> None], ss)

\* the condition of append without its comparison of the sample rates
AppendAccepts_TypeOnly(q, s) == TRUE

\* the condition of append: "isinstance(other, Sound) and other.fs == self.fs"
AppendAccepts(q, s) == s.fs = q.fs

RECURSIVE Repeat(_, _)
Repeat(list, k) == IF k <= 0 THEN <<>> ELSE list \o Repeat(list, k - 1)

(* Operand values of + and *: <<"Sound", id>> or <<"SoundSeq", record>>.   *)
(* Each operator returns [val, err]: val the new SoundSeq record.          *)

NoValue == [val |-> None, err |-> "TypeError"]

Built(r) == [val |-> Some(r.obj), err |-> r.err]

\* Sound.__add__
SoundAdd(id, other, ss) ==
    CASE other[1] = "Sound" -> Built(NewSeq(<<id, other[2]>>, DefaultFs, ss))
      [] other[1] = "SoundSeq" -> Built(NewSeq(<<id>> \o other[2].sounds, DefaultFs, ss))
      [] OTHER -> NoValue

\* SoundSeq.__add__: "self.sounds + other" with other a Sound is list + Sound,
\* which raises TypeError
SeqAdd(q, other, ss) ==
    CASE other[1] = "Sound" -> NoValue
      [] other[1] = "SoundSeq" -> Built(NewSeq(q.sounds \o other[2].sounds, DefaultFs, ss))
      [] OTHER -> NoValue

\* x + y
Add(x, y, ss) == IF x[1] = "Sound" THEN SoundAdd(x[2], y, ss) ELSE SeqAdd(x[2], y, ss)

\* Sound.__mul__ with an int factor
SoundMul(id, factor, ss) == Built(NewSeq(Repeat(<<id>>, Abs(factor)), DefaultFs, ss))

\* SoundSeq.__mul__ with an int factor
SeqMul(q, factor, ss) == Built(NewSeq(Repeat(q.sounds, Abs(factor)), DefaultFs, ss))

Mul(x, factor, ss) == IF x[1] = "Sound" THEN SoundMul(x[2], factor, ss) ELSE SeqMul(x[2], factor, ss)


-----------------------------------------------------------------------------
(* SoundSeq: the caller's operations.  The caller keeps each SoundSeq in a *)
(* variable q; "q = SoundSeq(...)" and "q = x + y" rebind it, which the    *)
(* caller does only while the object q held is not playing or waited for.  *)

MemberLists == UNION {[1..n -> SoundIds] : n \in 0..MaxMembers}

CanRebind(q) ==
    q \in DOMAIN seqs => ~IsPlaying(seqs[q], backend)

Rebound(q, rec) == [x \in DOMAIN seqs \cup {q} |-> IF x = q THEN rec ELSE seqs[x]]

\* q = SoundSeq(sounds, fs)
SeqConstruct(q, members, fs) ==
    /\ Ready
    /\ CanRebind(q)
    /\ LET r == NewSeq(members, fs, sounds)
       IN  /\ seqs' = Rebound(q, r.obj)
           /\ last' = Call("__init__", q, "", r.err)
    /\ UNCHANGED <<sounds, backend, waiting, cache, requested, since, operands, results, threads, syntheses, heap, loader, loop>>

\* append that raises on a Sound with another sample rate
SeqAppend_Raising(q, id) ==
    /\ Ready
    /\ q \in DOMAIN seqs
    /\ Len(seqs[q].sounds) < MaxMembers
    /\ IF AppendAccepts(seqs[q], sounds[id])
       THEN LET st == StopIfPlaying([seqs[q] EXCEPT !.sounds = Append(@, id)], backend)
                r == SeqChangeDurationFields(st.obj, sounds)
            IN  /\ seqs' = [seqs EXCEPT ![q] = r.obj]
                /\ backend' = st.backend
                /\ last' = Call("append", q, id, r.err)
       ELSE /\ last' = Call("append", q, id, "SampleRateMismatch")
            /\ UNCHANGED <<seqs, backend>>
    /\ UNCHANGED <<sounds, waiting, cache, requested, since, operands, results, threads, syntheses, heap, loader, loop>>

SeqAppend(q, id) ==
    /\ Ready
    /\ q \in DOMAIN seqs
    /\ Len(seqs[q].sounds) < MaxMembers
    /\ IF AppendAccepts(seqs[q], sounds[id])
       THEN LET st == StopIfPlaying([seqs[q] EXCEPT !.sounds = Append(@, id)], backend)
                r == SeqChangeDurationFields(st.obj, sounds)
            IN  /\ seqs' = [seqs EXCEPT ![q] = r.obj]
                /\ backend' = st.backend
                /\ last' = Call("append", q, id, r.err)
       ELSE /\ last' = Call("append", q, id, "")
            /\ UNCHANGED <<seqs, backend>>
    /\ UNCHANGED <<sounds, waiting, cache, requested, since, operands, results, threads, syntheses, heap, loader, loop>>

SeqChangeDuration(q) ==
    /\ Ready
    /\ q \in DOMAIN seqs
    /\ LET st == StopIfPlaying(seqs[q], backend)
           r == SeqChangeDurationFields(st.obj, sounds)
       IN  /\ seqs' = [seqs EXCEPT ![q] = r.obj]
           /\ backend' = st.backend
           /\ last' = Call("change_duration", q, "", r.err)
    /\ UNCHANGED <<sounds, waiting, cache, requested, since, operands, results, threads, syntheses, heap, loader, loop>>

SeqUpdateAudio(q) ==
    /\ Ready
    /\ q \in DOMAIN seqs
    /\ LET r == SeqUpdateAudioFields(seqs[q], sounds)
       IN  /\ seqs' = [seqs EXCEPT ![q] = r.obj]
           /\ last' = Call("update_audio", q, "", r.err)
    /\ UNCHANGED <<sounds, backend, waiting, cache, requested, since, operands, results, threads, syntheses, heap, loader, loop>>

SeqPlay(q) ==
    /\ Ready
    /\ q \in DOMAIN seqs
    /\ LET st == StopIfPlaying(seqs[q], backend)
           qs == [seqs EXCEPT ![q] = st.obj]
           h == PlayBuffer(st.backend, sounds, [qs EXCEPT ![q].player = None], waiting, q)
       IN  \/ /\ FreeSlots(st.backend, sounds, [qs EXCEPT ![q].player = None], waiting, q) # {}
              /\ seqs' = [qs EXCEPT ![q].player = Some(h)]
              /\ backend' = [st.backend EXCEPT ![h] = TRUE]
              /\ last' = Call("play", q, Was(seqs[q], backend), "")
           \/ /\ seqs' = qs
              /\ backend' = st.backend
              /\ last' = Call("play", q, Was(seqs[q], backend), "SimpleaudioError")
    /\ UNCHANGED <<sounds, waiting, cache, requested, since, operands, results, threads, syntheses, heap, loader, loop>>

SeqStop(q) ==
    /\ Ready
    /\ q \in DOMAIN seqs
    /\ LET st == StopFields(seqs[q], backend)
       IN  /\ seqs' = [seqs EXCEPT ![q] = st.obj]
           /\ backend' = st.backend
    /\ last' = Call("stop", q, Was(seqs[q], backend), "")
    /\ UNCHANGED <<sounds, waiting, cache, requested, since, operands, results, threads, syntheses, heap, loader, loop>>

SeqWaitDone(q) ==
    /\ Ready
    /\ q \in DOMAIN seqs
    /\ IF seqs[q].player # None
       THEN /\ waiting' = <<q, seqs[q].player[1]>>
            /\ last' = Call("wait_done", q, "", "blocked")
       ELSE /\ waiting' = None
            /\ last' = Call("wait_done", q, "", "")
    /\ UNCHANGED <<sounds, seqs, backend, cache, requested, since, operands, results, threads, syntheses, heap, loader, loop>>

SeqWaitReturn(q) ==
    /\ waiting # None
    /\ waiting[1] = q
    /\ ~HandleIsPlaying(backend, waiting[2])
    /\ seqs' = [seqs EXCEPT ![q].player = None]
    /\ waiting' = None
    /\ last' = Call("wait_done", q, "blocked", "")
    /\ UNCHANGED <<sounds, backend, cache, requested, since, operands, results, threads, syntheses, heap, loader, loop>>

\* the values x + y and x * k can be applied to: every live object
LiveOperands ==
    {<<"Sound", id>> : id \in SoundIds} \cup {<<"SoundSeq", seqs[q]>> : q \in DOMAIN seqs}

\* "q = <composition>": the result r, if there is one, is bound to q
Keep(q, op, r) ==
    /\ Ready
    /\ IF r.val = None
       THEN /\ last' = Call(op, "", "", r.err)
            /\ UNCHANGED seqs
       ELSE /\ CanRebind(q)
            /\ Len(r.val[1].sounds) <= MaxMembers
            /\ seqs' = Rebound(q, r.val[1])
            /\ last' = Call(op, q, "", r.err)
    /\ UNCHANGED <<sounds, backend, waiting, cache, requested, since, operands, results, threads, syntheses, heap, loader, loop>>

Compose(q, x, y) == Keep(q, "__add__", Add(x, y, sounds))

Multiply(q, x, factor) == Keep(q, "__mul__", Mul(x, factor, sounds))

-----------------------------------------------------------------------------
(* gen_custom_freq behind functools.lru_cache.  The decorator is applied   *)
(* without arguments, so the cache keeps maxsize = 128 entries and evicts  *)
(* the least recently used one.  An entry is <<key, value>>; the key is    *)
(* the tuple of the call's arguments.                                      *)

CacheMaxSize == 128

CacheKeys(c) == {c[i][1] : i \in 1..Len(c)}

Without(c, key) == SelectSeq(c, LAMBDA e : e[1] # key)

\* results with value added to the values the calls with key returned
Returned(rs, key, value) ==
    [k \in DOMAIN rs \cup {key} |->
        IF k = key THEN (IF k \in DOMAIN rs THEN rs[k] ELSE {}) \cup {value} ELSE rs[k]]

\* a lookup that takes the oldest entry whatever its key
Entry_Oldest(c, key) == c[1]

Entry(c, key) == c[CHOOSE i \in 1..Len(c) : c[i][1] = key]

\* the synthesis of the call with the arguments in key
Synthesize(key) == GenCustomFreq(key[1], key[2], key[3], key[4], key[5], key[6], key[7])

\* a cache that evicts from the wrong end: the most recently used entry
CachedCall_EvictsNewest(c, key) ==
    IF key \in CacheKeys(c)
    THEN [cache |-> Without(c, key) \o <<Entry(c, key)>>, value |-> Entry(c, key)[2],
          hit |-> TRUE]
    ELSE LET value == Synthesize(key)
             kept == IF Len(c) >= CacheMaxSize THEN SubSeq(c, 1, Len(c) - 1) ELSE c
         IN  [cache |-> IF value.err = "" THEN kept \o << <<key, value>> >> ELSE c,
              value |-> value, hit |-> FALSE]

\* the wrapper's call: [cache, value, hit]
CachedCall(c, key) ==
    IF key \in CacheKeys(c)
    THEN [cache |-> Without(c, key) \o <<Entry(c, key)>>, value |-> Entry(c, key)[2],
          hit |-> TRUE]
    ELSE LET value == Synthesize(key)
             kept == IF Len(c) >= CacheMaxSize THEN Tail(c) ELSE c
         IN  [cache |-> IF value.err = "" THEN kept \o << <<key, value>> >> ELSE c,
              value |-> value, hit |-> FALSE]

\* gen_custom_freq(key) called by the program; gap is None for a key never
\* requested before, else <<the number of distinct other keys requested since
\* this key's last request>>; the value returned is kept in results
Request(key, gap) ==
    LET r == CachedCall(cache, key)
    IN  /\ cache' = r.cache
        /\ last' = Call("gen_custom_freq", gap, key, IF r.hit THEN "hit" ELSE "miss")
        /\ results' = Returned(results, key, r.value)
        /\ UNCHANGED <<sounds, seqs, backend, waiting, operands, threads, syntheses, heap, loader, loop>>

-----------------------------------------------------------------------------
(* Specifications.  Each drives the same operations with one caller; they  *)
(* differ in the objects constructed and the arguments the caller passes.  *)
(* The caller changes the parameters of the Sounds in Tuned only; the      *)
(* other Sound keeps the parameters it was constructed with and serves as  *)
(* a member of sequences.                                                  *)
(* gen_custom_freq is called through its lru_cache; the object             *)
(* specifications take its value and leave the cache's content to          *)
(* CacheSpec.                                                              *)

Tuned == {"s1"}

DefaultPitch == <<"num", 440>>
DefaultStrength == 1
DefaultSeconds == <<1, 4000>>

\* how many parameters of the Sounds differ from the constructor's defaults
Deviation(ss) ==
    LET d(s) == (IF s.pitch = DefaultPitch THEN 0 ELSE 1)
              + (IF s.instrument = <<"none">> THEN 0 ELSE 1)
              + (IF s.instrument_strength = DefaultStrength THEN 0 ELSE 1)
              + (IF s.vol_factor = DefaultVolFactor THEN 0 ELSE 1)
              + (IF s.cutoff_factor = DefaultCutoffFactor THEN 0 ELSE 1)
    IN  d(ss["s1"]) + d(ss["s2"])

\* the Sound id with its fields replaced by s stays within max deviations
Within(id, s, max) == Deviation([sounds EXCEPT ![id] = s]) <= max

\* Sound(seconds = DefaultSeconds, fs = fs, cutoff_factor = c)
Constructed(fs, c) ==
    NewSound(DefaultPitch, DefaultSeconds, DefaultVolFactor, fs, None, DefaultStrength, c).obj

\* the parts of the state that only ThreadSpec, HeapSpec and LoadSpec use
Unloaded ==
    /\ threads = <<>>
    /\ syntheses = <<>>
    /\ heap = <<>>
    /\ loader = <<>>
    /\ loop = <<>>

InitRest ==
    /\ backend = [h \in HandleIds |-> FALSE]
    /\ waiting = None
    /\ last = Call("__init__", "", "", "")
    /\ cache = <<>>
    /\ requested = 0
    /\ since = None
    /\ results = <<>>
    /\ Unloaded

Setters(id, max) ==
    \/ \E pitch \in PitchArgs :
          Within(id, SetPitch(sounds[id], pitch), max) /\ SoundSetPitch(id, pitch)
    \/ \E instrument \in InstrumentArgs :
          Within(id, SetInstrument(sounds[id], instrument), max)
            /\ SoundSetInstrument(id, instrument)
    \/ \E strength \in StrengthArgs :
          Within(id, SetInstrumentStrength(sounds[id], strength), max)
            /\ SoundSetInstrumentStrength(id, strength)
    \/ \E vol \in VolArgs :
          Within(id, SetVolume(sounds[id], vol), max) /\ SoundSetVolume(id, vol)
    \/ \E factor \in Cutoffs :
          Within(id, SetCutoffFactor(sounds[id], factor), max)
            /\ SoundSetCutoffFactor(id, factor)

Transport(id) ==
    \/ SoundPlay(id)
    \/ SoundStop(id)
    \/ SoundWaitDone(id)
    \/ SoundWaitReturn(id)

SeqTransport(q) ==
    \/ SeqPlay(q)
    \/ SeqStop(q)
    \/ SeqWaitDone(q)
    \/ SeqWaitReturn(q)

Finish == \E h \in HandleIds : BackendFinish(h)

FsArgs == {None} \cup {Some(fs) : fs \in FsValues}

(* Spec: playback.  A Sound and a SoundSeq built from it are played,       *)
(* stopped and waited for while the Sound's duration changes, Sounds are   *)
(* appended to the sequence and setters store the values already held.     *)

Init ==
    /\ sounds \in [SoundIds -> {Constructed(fs, DefaultCutoffFactor) : fs \in FsValues}]
    /\ \E fs \in FsValues : seqs = [q \in SeqIds |-> NewSeq(<<"s1">>, fs, sounds).obj]
    /\ InitRest
    /\ operands = <<>>

Next ==
    \/ \E id \in Tuned :
        \/ Setters(id, 0)
        \/ \E seconds \in Durations : SoundChangeDuration(id, seconds, None)
        \/ Transport(id)
    \/ \E q \in SeqIds :
        \/ \E id \in SoundIds : SeqAppend(q, id)
        \/ SeqChangeDuration(q)
        \/ SeqTransport(q)
    \/ Finish

Spec == Init /\ [][Next]_vars

(* LiveSpec: Spec with the backend finishing every submitted buffer and a  *)
(* blocked wait_done returning once its handle no longer plays.            *)

LiveSpec ==
    /\ Spec
    /\ \A h \in HandleIds : WF_vars(BackendFinish(h))
    /\ \A id \in SoundIds : WF_vars(SoundWaitReturn(id))
    /\ \A q \in SeqIds : WF_vars(SeqWaitReturn(q))

(* SoundSpec: one Sound's parameters and buffer.                           *)

SoundInit ==
    /\ \E fs \in FsValues, c \in Cutoffs :
          sounds = [id \in SoundIds |->
                      IF id \in Tuned THEN Constructed(fs, c)
                      ELSE Constructed(DefaultFs, DefaultCutoffFactor)]
    /\ Deviation(sounds) <= MaxDeviation
    /\ seqs = <<>>
    /\ InitRest
    /\ operands = <<>>

SoundNext ==
    \/ \E id \in Tuned :
        \/ Setters(id, MaxDeviation)
        \/ \E seconds \in Durations, fsArg \in FsArgs : SoundChangeDuration(id, seconds, fsArg)
        \/ SoundUpdateAudio(id)
        \/ Transport(id)
    \/ Finish

SoundSpec == SoundInit /\ [][SoundNext]_vars

(* SeqSpec: building sequences and changing their members.                 *)

Factors == {-1, 2}

SeqInit ==
    /\ sounds \in [SoundIds -> {Constructed(fs, DefaultCutoffFactor) : fs \in FsValues}]
    /\ seqs = <<>>
    /\ InitRest
    /\ operands = <<>>

SeqNext ==
    \/ \E id \in Tuned, seconds \in Durations, fsArg \in FsArgs :
          SoundChangeDuration(id, seconds, fsArg)
    \/ \E q \in SeqIds :
        \/ \E members \in MemberLists, fs \in FsValues : SeqConstruct(q, members, fs)
        \/ \E x \in LiveOperands, y \in LiveOperands : Compose(q, x, y)
        \/ \E x \in LiveOperands, factor \in Factors : Multiply(q, x, factor)
        \/ \E id \in SoundIds : SeqAppend(q, id)
        \/ SeqChangeDuration(q)
        \/ SeqUpdateAudio(q)

SeqSpec == SeqInit /\ [][SeqNext]_vars

(* AddSpec: x + y as a function of its operands.  A, B and C are each a    *)
(* Sound or a SoundSeq; the four sums of (A + B) + C and A + (B + C) are   *)
(* computed one at a time.  A sum whose operand raised raises the same.    *)

OperandLists == {<<>>, <<"s1">>, <<"s2", "s1">>}

OperandValues(ss) ==
    {<<"Sound", id>> : id \in SoundIds}
      \cup {<<"SoundSeq", NewSeq(members, DefaultFs, ss).obj>> : members \in OperandLists}

AddInit ==
    /\ sounds \in [SoundIds -> {Constructed(fs, DefaultCutoffFactor) : fs \in FsValues}]
    /\ seqs = <<>>
    /\ InitRest
    /\ operands \in [{"A", "B", "C"} -> OperandValues(sounds)]

Computed(name) == name \in DOMAIN results

\* the value of a computed sum as the operand of the next one
AsOperand(r) == <<"SoundSeq", r.val[1]>>

Record(name, r) ==
    /\ ~Computed(name)
    /\ results' = [x \in DOMAIN results \cup {name} |-> IF x = name THEN r ELSE results[x]]
    /\ last' = Call("__add__", "", name, r.err)
    /\ UNCHANGED <<sounds, seqs, backend, waiting, cache, requested, since, operands, threads,
                 syntheses, heap, loader, loop>>

AddLeftInner == Record("A+B", Add(operands["A"], operands["B"], sounds))

AddLeftOuter ==
    /\ Computed("A+B")
    /\ Record("(A+B)+C", IF results["A+B"].err # "" THEN results["A+B"]
                         ELSE Add(AsOperand(results["A+B"]), operands["C"], sounds))

AddRightInner == Record("B+C", Add(operands["B"], operands["C"], sounds))

AddRightOuter ==
    /\ Computed("B+C")
    /\ Record("A+(B+C)", IF results["B+C"].err # "" THEN results["B+C"]
                         ELSE Add(operands["A"], AsOperand(results["B+C"]), sounds))

AddNext == AddLeftInner \/ AddLeftOuter \/ AddRightInner \/ AddRightOuter

AddSpec == AddInit /\ [][AddNext]_vars

(* CacheSpec: calls of gen_custom_freq.  The probe call is repeated at any *)
(* time; between its repetitions the program requests other frequencies,   *)
(* each distinct, as the start-up tables do over the note names.           *)

NumKeys == 130

KeyOf(frequency) ==
    <<frequency, DefaultSeconds, DefaultVolFactor, DefaultFs, <<"none">>, DefaultStrength,
      DefaultCutoffFactor>>

ProbeKey == KeyOf(440)

CacheInit ==
    /\ sounds \in [SoundIds -> {Constructed(DefaultFs, DefaultCutoffFactor)}]
    /\ seqs = <<>>
    /\ InitRest
    /\ operands = <<>>

RequestProbe ==
    /\ Request(ProbeKey, IF since = None THEN None ELSE Some(Cardinality(since[1])))
    /\ since' = Some({})
    /\ UNCHANGED requested

\* the requested-th other frequency
OtherKey == KeyOf(1000 + requested)

RequestOther ==
    /\ requested < NumKeys
    /\ Request(OtherKey, None)
    /\ since' = IF since = None THEN None ELSE Some(since[1] \cup {OtherKey})
    /\ requested' = requested + 1

CacheNext == RequestProbe \/ RequestOther

CacheSpec == CacheInit /\ [][CacheNext]_vars

(* ThreadSpec: gen_custom_freq called from several threads.  The wrapper   *)
(* of functools.lru_cache looks the key up and, on a miss, calls the       *)
(* function without holding any lock across the call; when the call        *)
(* returns it stores the value unless the key has been stored meanwhile.   *)
(* The lookup and the store are each one step; the body of                 *)
(* gen_custom_freq is Python code, during which the threads switch.        *)

ThreadIds == {"t1", "t2", "t3"}

ThreadKeys == {KeyOf(440), KeyOf(880)}

Idle == [pc |-> "idle", key |-> None]

ThreadInit ==
    /\ sounds \in [SoundIds -> {Constructed(DefaultFs, DefaultCutoffFactor)}]
    /\ seqs = <<>>
    /\ backend = [h \in HandleIds |-> FALSE]
    /\ waiting = None
    /\ last = Call("__init__", "", "", "")
    /\ cache = <<>>
    /\ requested = 0
    /\ since = None
    /\ operands = <<>>
    /\ results = <<>>
    /\ threads = [th \in ThreadIds |-> Idle]
    /\ syntheses = [key \in ThreadKeys |-> 0]
    /\ heap = <<>>
    /\ loader = <<>>
    /\ loop = <<>>

\* thread th calls gen_custom_freq(key): the wrapper's lookup; a hit returns
\* the cached value, a miss enters the body of the function
ThreadCall(th, key) ==
    /\ threads[th].pc = "idle"
    /\ IF key \in CacheKeys(cache)
       THEN /\ cache' = CachedCall(cache, key).cache
            /\ last' = Call("gen_custom_freq", th, key, "hit")
            /\ UNCHANGED <<threads, syntheses>>
       ELSE /\ threads' = [threads EXCEPT ![th] = [pc |-> "synthesizing", key |-> Some(key)]]
            /\ syntheses' = [syntheses EXCEPT ![key] = @ + 1]
            /\ last' = Call("gen_custom_freq", th, key, "miss")
            /\ UNCHANGED cache
    /\ UNCHANGED <<sounds, seqs, backend, waiting, requested, since, operands, results, heap, loader, loop>>

\* the body has returned in thread th: the wrapper stores the value unless
\* another thread stored the key during the call, and returns it
ThreadStore(th) ==
    /\ threads[th].pc = "synthesizing"
    /\ LET key == threads[th].key[1]
       IN  /\ cache' = IF key \in CacheKeys(cache) THEN cache
                       ELSE CachedCall(cache, key).cache
           /\ results' = Returned(results, key, Synthesize(key))
    /\ threads' = [threads EXCEPT ![th] = Idle]
    /\ UNCHANGED <<sounds, seqs, backend, waiting, last, requested, since, operands, syntheses, heap, loader, loop>>

ThreadNext ==
    \E th \in ThreadIds :
        \/ \E key \in ThreadKeys : ThreadCall(th, key)
        \/ ThreadStore(th)

ThreadSpec == ThreadInit /\ [][ThreadNext]_vars

(* HeapSpec: the buffers as objects.  heap.at maps the address of every    *)
(* live buffer object to its bytes; heap.of maps a Sound to the bytearray  *)
(* its audio field references; heap.cached maps a key of the cache to the  *)
(* bytes object the entry holds.  An object nothing references is          *)
(* collected and its address may be given to a later object.               *)

EmptyHeap == [of |-> <<>>, cached |-> <<>>, at |-> <<>>]

Put(f, k, v) == [x \in DOMAIN f \cup {k} |-> IF x = k THEN v ELSE f[x]]

Used(h) == {h.of[x] : x \in DOMAIN h.of} \cup {h.cached[k] : k \in DOMAIN h.cached}

\* the address of a new object: one that no live object has
Fresh(h) == CHOOSE a \in 1..(Cardinality(Used(h)) + 1) : a \notin Used(h)

Collect(h) == [h EXCEPT !.at = [a \in Used(h) |-> h.at[a]]]

\* the arguments update_audio passes to gen_custom_freq, as the cache's key
SoundKey(s) ==
    <<s.pitch[2], s.seconds, s.vol_factor, s.fs, s.instrument, s.instrument_strength,
      DefaultCutoffFactor>>

\* "self.audio = bytearray(self.size * 2)" of Sound id
HeapAllocArray(h, id, len) ==
    LET a == Fresh(h)
    IN  Collect([h EXCEPT !.of = Put(h.of, id, a), !.at = Put(h.at, a, ByteArray(len))])

\* gen_custom_freq(key) through the cache c: [heap, cache, addr, err]; a hit
\* returns the object the entry holds, a miss a new bytes object
HeapSynthesize(h, c, key) ==
    LET r == CachedCall(c, key)
        a == Fresh(h)
        kept == [k \in (DOMAIN h.cached \cup {key}) \cap CacheKeys(r.cache) |->
                    IF k = key THEN a ELSE h.cached[k]]
    IN  IF r.hit THEN [heap |-> h, cache |-> r.cache, addr |-> h.cached[key], err |-> ""]
        ELSE IF r.value.err # "" THEN [heap |-> h, cache |-> c, addr |-> 0, err |-> r.value.err]
        ELSE [heap |-> [h EXCEPT !.cached = kept, !.at = Put(h.at, a, r.value.audio)],
              cache |-> r.cache, addr |-> a, err |-> ""]

\* update_audio that binds the Sound's audio field to the object it was given
HeapUpdate_Rebinds(h, id, src) ==
    [heap |-> Collect([h EXCEPT !.of = Put(h.of, id, src)]), err |-> ""]

\* "for i, a in enumerate(new_audio): self.audio[i] = a" of Sound id, new_audio
\* the object at src: the bytearray the Sound holds is written in place
HeapUpdate(h, id, src) ==
    LET c == CopyInto(h.at[h.of[id]], h.at[src])
    IN  [heap |-> Collect([h EXCEPT !.at[h.of[id]] = c.audio]), err |-> c.err]

\* Sound.update_audio of the Sound with fields s: [heap, cache, err]
HeapUpdateAudioOf(h, c, id, s) ==
    LET g == HeapSynthesize(h, c, SoundKey(s))
        u == HeapUpdate(g.heap, id, g.addr)
    IN  IF g.err # "" THEN [heap |-> Collect(h), cache |-> c, err |-> g.err]
        ELSE [heap |-> u.heap, cache |-> g.cache, err |-> u.err]

\* the Sound objects as the heap shows them: every audio field read through
\* its reference
Deref(ss, h) == [x \in DOMAIN ss |-> [ss[x] EXCEPT !.audio = h.at[h.of[x]]]]

\* Sound.change_duration(seconds) of Sound id, its buffers as objects
HeapChangeDuration(id, seconds) ==
    /\ Ready
    /\ LET st == StopIfPlaying(sounds[id], backend)
           s == [st.obj EXCEPT !.player = None, !.size = IntOfProduct(seconds, st.obj.fs),
                               !.seconds = seconds]
       IN  \E a \in {HeapAllocArray(heap, id, s.size * 2)} :
           \E u \in {HeapUpdateAudioOf(a, cache, id, s)} :
              /\ heap' = u.heap
              /\ cache' = u.cache
              /\ sounds' = Deref([sounds EXCEPT ![id] = s], u.heap)
              /\ backend' = st.backend
              /\ last' = Call("change_duration", id, "", u.err)
    /\ UNCHANGED <<seqs, waiting, requested, since, operands, results, threads, syntheses, loader, loop>>

\* Sound.update_audio() of Sound id, its buffers as objects
HeapUpdateAudio(id) ==
    /\ Ready
    /\ \E u \in {HeapUpdateAudioOf(heap, cache, id, sounds[id])} :
          /\ heap' = u.heap
          /\ cache' = u.cache
          /\ sounds' = Deref(sounds, u.heap)
          /\ last' = Call("update_audio", id, "", u.err)
    /\ UNCHANGED <<seqs, backend, waiting, requested, since, operands, results, threads, syntheses, loader, loop>>

\* s1 = Sound(); s2 = Sound(): two Sounds of equal parameters
HeapInit ==
    /\ \E s \in {Constructed(DefaultFs, DefaultCutoffFactor)} :
       \E a1 \in {HeapAllocArray(EmptyHeap, "s1", s.size * 2)} :
       \E u1 \in {HeapUpdateAudioOf(a1, <<>>, "s1", s)} :
       \E a2 \in {HeapAllocArray(u1.heap, "s2", s.size * 2)} :
       \E u2 \in {HeapUpdateAudioOf(a2, u1.cache, "s2", s)} :
          /\ heap = u2.heap
          /\ cache = u2.cache
          /\ sounds = Deref([id \in SoundIds |-> s], u2.heap)
    /\ seqs = <<>>
    /\ backend = [h \in HandleIds |-> FALSE]
    /\ waiting = None
    /\ last = Call("__init__", "", "", "")
    /\ requested = 0
    /\ since = None
    /\ operands = <<>>
    /\ results = <<>>
    /\ threads = <<>>
    /\ syntheses = <<>>
    /\ loader = <<>>
    /\ loop = <<>>

HeapNext ==
    \/ \E id \in Tuned :
        \/ \E pitch \in PitchArgs : SoundSetPitch(id, pitch)
        \/ \E seconds \in Durations : HeapChangeDuration(id, seconds)
    \/ \E id \in SoundIds : HeapUpdateAudio(id)

HeapSpec == HeapInit /\ [][HeapNext]_vars

(* LoadSpec: the start-up block of the module, run at every import.  The   *)
(* pickle file is in one of the conditions FileStates:                     *)
(*   missing     open raises FileNotFoundError                             *)
(*   valid       pickle.load returns the two tables                        *)
(*   stale       the pickle names an attribute the module does not have:   *)
(*               pickle.load raises AttributeError                         *)
(*   truncated   the pickle ends early: pickle.load raises EOFError        *)
(*   garbage     not a pickle: pickle.load raises UnpicklingError          *)
(*   unreadable  open raises PermissionError                               *)
(*   foreign     a pickle of some other value: the assignment to the two   *)
(*               names raises ValueError                                   *)
(* loader.writable tells whether open(SOUNDS_FILE, "wb") succeeds.  Between *)
(* two imports the environment changes the file and the permission.  A     *)
(* table is kept as the parameters of its Sounds, in NOTE_NAMES order.     *)

FileStates ==
    {"missing", "valid", "stale", "truncated", "garbage", "unreadable", "foreign"}

\* NOTE_NAMES restricted to NoteNames
NoteOrder == <<"A1", "A2", "A3", "G4", "A4", "A5", "A6">>

\* the exception the load raises, "" when it returns the tables
LoadError(file) ==
    CASE file = "missing" -> "FileNotFoundError"
      [] file = "stale" -> "AttributeError"
      [] file = "truncated" -> "EOFError"
      [] file = "garbage" -> "UnpicklingError"
      [] file = "unreadable" -> "PermissionError"
      [] file = "foreign" -> "ValueError"
      [] OTHER -> ""

\* "except (FileNotFoundError, AttributeError)"
Caught == {"FileNotFoundError", "AttributeError"}

\* Sound(seconds=0.5, pitch=note, cutoff_factor=0.01)
BasicSound(note) ==
    [pitch |-> SetPitch(BlankSound, <<"name", note>>).pitch, seconds |-> <<1, 2>>,
     instrument |-> SetInstrument(BlankSound, None).instrument,
     instrument_strength |-> DefaultStrength]

\* Sound(seconds=0.5, pitch=note, cutoff_factor=0.01, instrument=1, instrument_strength=1)
OrganSound(note) ==
    [pitch |-> SetPitch(BlankSound, <<"name", note>>).pitch, seconds |-> <<1, 2>>,
     instrument |-> SetInstrument(BlankSound, <<"num", 1>>).instrument,
     instrument_strength |-> 1]

Process(pc, basic, organ, from) == [pc |-> pc, basic |-> basic, organ |-> organ, from |-> from]

LoadInit ==
    /\ sounds \in [SoundIds -> {Constructed(DefaultFs, DefaultCutoffFactor)}]
    /\ seqs = <<>>
    /\ backend = [h \in HandleIds |-> FALSE]
    /\ waiting = None
    /\ last = Call("__init__", "", "", "")
    /\ cache = <<>>
    /\ requested = 0
    /\ since = None
    /\ operands = <<>>
    /\ results = <<>>
    /\ threads = <<>>
    /\ syntheses = <<>>
    /\ heap = <<>>
    /\ loop = <<>>
    /\ \E file \in FileStates, writable \in BOOLEAN :
          loader = [file |-> file, writable |-> writable, run |-> Process("start", <<>>, <<>>, "")]

LoadFrame ==
    UNCHANGED <<sounds, seqs, backend, waiting, cache, requested, since, operands, results, threads, syntheses, heap, loop>>

\* the try block: open and pickle.load
LoadTables ==
    /\ loader.run.pc = "start"
    /\ LET e == LoadError(loader.file)
       IN  /\ loader' = [loader EXCEPT !.run =
                  IF e = "" THEN Process("loaded", [i \in 1..Len(NoteOrder) |-> BasicSound(NoteOrder[i])],
                                         [i \in 1..Len(NoteOrder) |-> OrganSound(NoteOrder[i])], "file")
                  ELSE IF e \in Caught THEN Process("basic", <<>>, <<>>, "")
                  ELSE Process("failed", <<>>, <<>>, "")]
           /\ last' = Call("load", "", loader.file, e)
    /\ LoadFrame

\* the next Sound of BASIC_SOUNDS
ComputeBasic ==
    /\ loader.run.pc = "basic"
    /\ LET n == Len(loader.run.basic) + 1
           table == Append(loader.run.basic, BasicSound(NoteOrder[n]))
       IN  loader' = [loader EXCEPT !.run.basic = table,
                                    !.run.pc = IF n = Len(NoteOrder) THEN "organ" ELSE "basic"]
    /\ last' = Call("recompute", "", "BASIC_SOUNDS", "")
    /\ LoadFrame

\* the next Sound of ORGAN_SOUNDS
ComputeOrgan ==
    /\ loader.run.pc = "organ"
    /\ LET n == Len(loader.run.organ) + 1
           table == Append(loader.run.organ, OrganSound(NoteOrder[n]))
       IN  loader' = [loader EXCEPT !.run.organ = table,
                                    !.run.pc = IF n = Len(NoteOrder) THEN "write" ELSE "organ"]
    /\ last' = Call("recompute", "", "ORGAN_SOUNDS", "")
    /\ LoadFrame

\* open(SOUNDS_FILE, "wb") and pickle.dump
WriteTables ==
    /\ loader.run.pc = "write"
    /\ IF loader.writable
       THEN /\ loader' = [loader EXCEPT !.file = "valid", !.run.pc = "loaded",
                                        !.run.from = "recomputation"]
            /\ last' = Call("dump", "", "", "")
       ELSE /\ loader' = [loader EXCEPT !.run = Process("failed", <<>>, <<>>, "")]
            /\ last' = Call("dump", "", "", "PermissionError")
    /\ LoadFrame

\* the process is killed after open(SOUNDS_FILE, "wb") has emptied the file
\* and before pickle.dump has written it
KilledInDump ==
    /\ loader.run.pc = "write"
    /\ loader.writable
    /\ loader' = [loader EXCEPT !.file = "truncated", !.run = Process("killed", <<>>, <<>>, "")]
    /\ last' = Call("dump", "", "", "killed")
    /\ LoadFrame

\* the process has ended; the environment leaves the file and the permission
\* in any condition and the program is started again
Restart(file, writable) ==
    /\ loader.run.pc \in {"loaded", "failed", "killed"}
    /\ loader' = [file |-> file, writable |-> writable, run |-> Process("start", <<>>, <<>>, "")]
    /\ last' = Call("restart", "", "", "")
    /\ LoadFrame

LoadNext ==
    \/ LoadTables
    \/ ComputeBasic
    \/ ComputeOrgan
    \/ WriteTables
    \/ KilledInDump
    \/ \E file \in FileStates, writable \in BOOLEAN : Restart(file, writable)

LoadSpec == LoadInit /\ [][LoadNext]_vars

(* ArgSpec: calls whose arguments name no note or are not positive.  One   *)
(* Sound is constructed, retuned and resized and gen_custom_freq and       *)
(* play_note are called directly, with note names the pitch table lacks    *)
(* and with frequencies, durations and sample rates that are zero or       *)
(* negative next to valid ones.                                            *)

UnknownNames == {"H9"}

PitchInputs ==
    PitchArgs \cup {<<"num", 0>>, <<"num", -440>>} \cup {<<"name", n>> : n \in UnknownNames}

InstrumentInputs == {None, <<"name", "A4">>} \cup {<<"name", n>> : n \in UnknownNames}

SecondsInputs == {DefaultSeconds, <<0, 1>>, <<-1, 4000>>}

FsInputs == {DefaultFs, 0, -8000}

\* the arguments of gen_custom_freq(frequency, seconds, fs = fs, instrument = instrument)
ArgKey(frequency, seconds, fs, instrument) ==
    <<frequency, seconds, DefaultVolFactor, fs, instrument, DefaultStrength,
      DefaultCutoffFactor>>

GenInputs ==
    {ArgKey(440, DefaultSeconds, DefaultFs, <<"name", n>>) : n \in UnknownNames}
      \cup {ArgKey(frequency, DefaultSeconds, DefaultFs, <<"none">>) : frequency \in {0, -440}}

ArgInit ==
    /\ sounds = [id \in SoundIds |-> Constructed(DefaultFs, DefaultCutoffFactor)]
    /\ seqs = <<>>
    /\ InitRest
    /\ operands = <<>>

\* s1 = Sound(pitch, seconds, fs = fs, instrument = instrument): the name is
\* bound only when __init__ returns
ArgConstruct(pitch, seconds, fs, instrument) ==
    /\ Ready
    /\ LET r == NewSound(pitch, seconds, DefaultVolFactor, fs, instrument, DefaultStrength,
                         DefaultCutoffFactor)
       IN  /\ sounds' = IF r.err = "" THEN [sounds EXCEPT !["s1"] = r.obj] ELSE sounds
           /\ last' = Call("Sound", "s1", "", r.err)
    /\ UNCHANGED <<seqs, backend, waiting, cache, requested, since, operands, results, threads, syntheses, heap, loader, loop>>

\* play_note(note_name) up to the buffer play_freq submits: [err, audio]
PlayNote(note_name, seconds, vol_factor, fs) ==
    IF note_name \notin NoteNames THEN [err |-> "KeyError", audio |-> <<>>]
    ELSE GenCustomFreq(NOTE[note_name], seconds, vol_factor, fs, <<"none">>, DefaultStrength,
                       DefaultCutoffFactor)

\* play_note(note_name, seconds) with bg_play = False: the call returns when
\* the submission has ended, or play_buffer raises
ArgPlayNote(note_name, seconds) ==
    /\ Ready
    /\ LET r == PlayNote(note_name, seconds, DefaultVolFactor, DefaultFs)
       IN  \E played \in BOOLEAN :
              last' = Call("play_note", "", note_name,
                           IF r.err # "" THEN r.err
                           ELSE IF played THEN "" ELSE "SimpleaudioError")
    /\ UNCHANGED <<sounds, seqs, backend, waiting, cache, requested, since, operands, results, threads, syntheses, heap, loader, loop>>

\* gen_custom_freq(key) called directly
ArgGen(key) == Request(key, None) /\ UNCHANGED <<requested, since>>

ArgNext ==
    \/ \E pitch \in PitchInputs : ArgConstruct(pitch, DefaultSeconds, DefaultFs, None)
    \/ \E seconds \in SecondsInputs, fs \in FsInputs :
          ArgConstruct(DefaultPitch, seconds, fs, None)
    \/ \E instrument \in InstrumentInputs :
          ArgConstruct(DefaultPitch, DefaultSeconds, DefaultFs, instrument)
    \/ \E pitch \in PitchInputs : SoundSetPitch("s1", pitch)
    \/ \E instrument \in InstrumentInputs : SoundSetInstrument("s1", instrument)
    \/ \E seconds \in SecondsInputs, fs \in FsInputs : SoundChangeDuration("s1", seconds, Some(fs))
    \/ SoundUpdateAudio("s1")
    \/ \E note_name \in {"A4"} \cup UnknownNames, seconds \in SecondsInputs :
          ArgPlayNote(note_name, seconds)
    \/ \E key \in GenInputs : ArgGen(key)

ArgSpec == ArgInit /\ [][ArgNext]_vars

(* EnvelopeSpec: the fade envelope of one call of gen_custom_freq.  The    *)
(* arguments are drawn so that the buffer has 1 to MaxEighths samples at   *)
(* the lower sample rate and the cutoff is 0, inside the first half, past  *)
(* the middle, and the whole buffer.                                       *)

MaxEighths == 6

EnvelopeFs == {8, 16}

EnvelopeSeconds == {<<k, 8>> : k \in 1..MaxEighths}

EnvelopeCutoffs == {<<0, 1>>, <<1, 16>>, <<1, 8>>, <<1, 4>>, <<1, 2>>, <<1, 1>>, <<2, 1>>}

EnvelopeKeys ==
    {<<440, seconds, DefaultVolFactor, fs, <<"num", 1>>, DefaultStrength, cutoff_factor>> :
        seconds \in EnvelopeSeconds, fs \in EnvelopeFs, cutoff_factor \in EnvelopeCutoffs}

EnvelopeInit ==
    /\ sounds = [id \in SoundIds |-> Constructed(DefaultFs, DefaultCutoffFactor)]
    /\ seqs = <<>>
    /\ InitRest
    /\ operands \in EnvelopeKeys

\* gen_custom_freq(*operands)
EnvelopeCall ==
    /\ results = <<>>
    /\ Request(operands, None)
    /\ UNCHANGED <<requested, since>>

EnvelopeNext == EnvelopeCall

EnvelopeSpec == EnvelopeInit /\ [][EnvelopeNext]_vars

(* RaceSpec: two paths of control on one object.  The first plays the      *)
(* object and blocks in wait_done(); while it is blocked the second calls  *)
(* stop() and play() on the same object.  PlayObject.wait_done() returns   *)
(* once the handle it was called on no longer plays; the statement after   *)
(* it, "self.player = None", runs whenever the first path is scheduled     *)
(* again, so calls of the second path can come in between.  The methods    *)
(* of the two classes are the same code.                                   *)

Raced == {"s1", "q1"}

\* object o's fields become obj
SetObject(o, obj) ==
    /\ sounds' = IF o \in SoundIds THEN [sounds EXCEPT ![o] = obj] ELSE sounds
    /\ seqs' = IF o \in SoundIds THEN seqs ELSE [seqs EXCEPT ![o] = obj]

\* the first path is blocked in wait_done() of object o
BlockedOn(o) == waiting # None /\ waiting[1] = o

\* stop() called by the second path
OtherStop(o) ==
    /\ BlockedOn(o)
    /\ LET st == StopFields(Object(o), backend)
       IN  /\ SetObject(o, st.obj)
           /\ backend' = st.backend
    /\ last' = Call("stop", o, "second", "")
    /\ UNCHANGED <<waiting, cache, requested, since, operands, results, threads, syntheses, heap, loader, loop>>

\* play() called by the second path
OtherPlay(o) ==
    /\ BlockedOn(o)
    /\ LET st == StopIfPlaying(Object(o), backend)
           cleared == [st.obj EXCEPT !.player = None]
           ss == IF o \in SoundIds THEN [sounds EXCEPT ![o] = cleared] ELSE sounds
           qs == IF o \in SoundIds THEN seqs ELSE [seqs EXCEPT ![o] = cleared]
           h == PlayBuffer(st.backend, ss, qs, waiting, o)
       IN  \/ /\ FreeSlots(st.backend, ss, qs, waiting, o) # {}
              /\ SetObject(o, [st.obj EXCEPT !.player = Some(h)])
              /\ backend' = [st.backend EXCEPT ![h] = TRUE]
              /\ last' = Call("play", o, "second", "")
           \/ /\ SetObject(o, st.obj)
              /\ backend' = st.backend
              /\ last' = Call("play", o, "second", "SimpleaudioError")
    /\ UNCHANGED <<waiting, cache, requested, since, operands, results, threads, syntheses, heap, loader, loop>>

RaceInit ==
    /\ sounds \in [SoundIds -> {Constructed(fs, DefaultCutoffFactor) : fs \in FsValues}]
    /\ \E fs \in FsValues : seqs = [q \in SeqIds |-> NewSeq(<<"s1">>, fs, sounds).obj]
    /\ InitRest
    /\ operands = <<>>

RaceNext ==
    \/ \E id \in Tuned : Transport(id)
    \/ \E q \in SeqIds : SeqTransport(q)
    \/ \E o \in Raced : OtherStop(o) \/ OtherPlay(o)
    \/ Finish

RaceSpec == RaceInit /\ [][RaceNext]_vars

(* PollSpec: collect_discrete_us_data of instrument.py.  The touch sensor  *)
(* is pressed and released by the player at any time; the loop sees it     *)
(* only through its calls of is_pressed().  A distance is a fraction of    *)
(* centimetres.  loop.pc is the statement the loop is at: "poll" (line     *)
(* 26), "read" (line 27), the four if statements by the note they play     *)
(* (lines 28-39), "release" (lines 46-47) and "done" after exit().         *)
(* loop.issued lists the notes play() was called for since is_pressed()    *)
(* was last read true at line 26.                                          *)

LoopNotes == <<"E4", "G4", "A4", "B4">>

\* ORGAN_SOUNDS[note] as the start-up block computes it; the loop never reads
\* the pitch or the bytes, which are kept by name
OrganEntry(note) ==
    [BlankSound EXCEPT !.pitch = <<"note", note>>, !.instrument = <<"num", 1>>,
                       !.instrument_strength = 1, !.vol_factor = DefaultVolFactor,
                       !.cutoff_factor = DefaultCutoffFactor, !.seconds = <<1, 2>>,
                       !.fs = DefaultFs, !.size = IntOfProduct(<<1, 2>>, DefaultFs),
                       !.audio = <<"organ", note>>]

Played == {LoopNotes[i] : i \in 1..Len(LoopNotes)}

\* US_SENSOR.get_value(): centimetres from 0 to 255, here the values at and
\* next to the bounds the loop compares with
Readings ==
    {<<0, 1>>, <<249, 100>>, <<5, 2>>, <<649, 100>>, <<13, 2>>, <<1399, 100>>, <<14, 1>>,
     <<2099, 100>>, <<21, 1>>, <<2824, 100>>, <<113, 4>>, <<255, 1>>}

\* a < b for fractions with positive denominators
RatLess(a, b) == a[1] * b[2] < b[1] * a[2]

\* the four conditions with their lower bounds left out
Holds_NoLowerBound(note, us_data) ==
    CASE note = "E4" -> RatLess(us_data, <<13, 2>>)
      [] note = "G4" -> RatLess(us_data, <<14, 1>>)
      [] note = "A4" -> RatLess(us_data, <<21, 1>>)
      [] note = "B4" -> RatLess(us_data, <<113, 4>>)

\* lines 28, 31, 34, 37: the condition of the if statement that plays note
Holds(note, us_data) ==
    CASE note = "E4" -> RatLess(us_data, <<13, 2>>) /\ ~RatLess(us_data, <<5, 2>>)
      [] note = "G4" -> RatLess(us_data, <<14, 1>>) /\ ~RatLess(us_data, <<13, 2>>)
      [] note = "A4" -> RatLess(us_data, <<21, 1>>) /\ ~RatLess(us_data, <<14, 1>>)
      [] note = "B4" -> RatLess(us_data, <<113, 4>>) /\ ~RatLess(us_data, <<21, 1>>)

\* the statement after the if statement that plays LoopNotes[i]
After(i) == IF i < Len(LoopNotes) THEN LoopNotes[i + 1] ELSE "release"

LoopFrame ==
    UNCHANGED <<seqs, waiting, cache, requested, since, operands, results, threads, syntheses, heap, loader>>

PollInit ==
    /\ sounds = [note \in Played |-> OrganEntry(note)]
    /\ backend = [h \in Played \X (1..MaxHandles) |-> FALSE]
    /\ seqs = <<>>
    /\ waiting = None
    /\ last = Call("__init__", "", "", "")
    /\ cache = <<>>
    /\ requested = 0
    /\ since = None
    /\ operands = <<>>
    /\ results = <<>>
    /\ threads = <<>>
    /\ syntheses = <<>>
    /\ heap = <<>>
    /\ loader = <<>>
    /\ loop = [pc |-> "poll", pressed |-> FALSE, us_data |-> None, issued |-> <<>>]

\* the player presses or releases the touch sensor
Touch ==
    /\ loop.pc # "done"
    /\ loop' = [loop EXCEPT !.pressed = ~loop.pressed]
    /\ UNCHANGED <<sounds, backend, last>>
    /\ LoopFrame

\* line 26: if TOUCH_SENSOR.is_pressed()
LoopPoll ==
    /\ loop.pc = "poll"
    /\ loop.pressed
    /\ loop' = [loop EXCEPT !.pc = "read"]
    /\ UNCHANGED <<sounds, backend, last>>
    /\ LoopFrame

\* line 27: us_data = US_SENSOR.get_value()
LoopRead ==
    /\ loop.pc = "read"
    /\ \E us_data \in Readings : loop' = [loop EXCEPT !.pc = LoopNotes[1], !.us_data = us_data]
    /\ UNCHANGED <<sounds, backend, last>>
    /\ LoopFrame

\* lines 28-39: the if statement that plays LoopNotes[i].  play() raising
\* leaves the loop through "except BaseException: pass" to exit()
LoopIf(i) ==
    LET note == LoopNotes[i]
        st == StopIfPlaying(sounds[note], backend)
        ss == [sounds EXCEPT ![note] = [st.obj EXCEPT !.player = None]]
        h == PlayBuffer(st.backend, ss, seqs, waiting, note)
    IN  /\ loop.pc = note
        /\ IF Holds(note, loop.us_data)
           THEN \/ /\ FreeSlots(st.backend, ss, seqs, waiting, note) # {}
                   /\ sounds' = [sounds EXCEPT ![note] = [st.obj EXCEPT !.player = Some(h)]]
                   /\ backend' = [st.backend EXCEPT ![h] = TRUE]
                   /\ last' = Call("play", note, Was(sounds[note], backend), "")
                   /\ loop' = [loop EXCEPT !.pc = After(i), !.issued = Append(@, note)]
                \/ /\ sounds' = [sounds EXCEPT ![note] = st.obj]
                   /\ backend' = st.backend
                   /\ last' = Call("play", note, Was(sounds[note], backend), "SimpleaudioError")
                   /\ loop' = [loop EXCEPT !.pc = "done", !.issued = Append(@, note)]
           ELSE /\ loop' = [loop EXCEPT !.pc = After(i)]
                /\ UNCHANGED <<sounds, backend, last>>
        /\ LoopFrame

\* lines 46-47: while TOUCH_SENSOR.is_pressed(): pass
LoopRelease ==
    /\ loop.pc = "release"
    /\ ~loop.pressed
    /\ loop' = [loop EXCEPT !.pc = "poll", !.us_data = None, !.issued = <<>>]
    /\ UNCHANGED <<sounds, backend, last>>
    /\ LoopFrame

\* lines 49-54: KeyboardInterrupt anywhere in the loop; exit()
LoopInterrupt ==
    /\ loop.pc # "done"
    /\ loop' = [loop EXCEPT !.pc = "done"]
    /\ UNCHANGED <<sounds, backend, last>>
    /\ LoopFrame

PollNext ==
    \/ Touch
    \/ LoopPoll
    \/ LoopRead
    \/ \E i \in 1..Len(LoopNotes) : LoopIf(i)
    \/ LoopRelease
    \/ LoopInterrupt
    \/ \E h \in Played \X (1..MaxHandles) : BackendFinish(h)

PollSpec == PollInit /\ [][PollNext]_vars

-----------------------------------------------------------------------------
(* Claims.                                                                 *)

\* the submissions of object o that play on the backend
Active(o) == {k \in 1..MaxHandles : backend[<<o, k>>]}

\* the handle object o holds, as a set
Held(o) == IF o \in DOMAIN seqs \cup SoundIds /\ Object(o).player # None
           THEN {Object(o).player[1]} ELSE {}

Live == SoundIds \cup DOMAIN seqs

(* C1: with one caller, after any calls of play, stop, wait_done, the      *)
(* setters, change_duration and append and any natural completions, at     *)
(* most one submission of an object's buffer is active on the backend, and *)
(* it is the one the object's player holds: play() on a playing object     *)
(* stops the prior submission before it submits the new one.               *)
C1_AtMostOneActive ==
    \A o \in ObjectIds :
        /\ Cardinality(Active(o)) <= 1
        /\ \A k \in Active(o) : o \in Live /\ <<o, k>> \in Held(o)

\* play() was called on a playing SoundSeq and on return its new submission
\* is the only active one
C1_Witness ==
    /\ last = Call("play", "q1", "playing", "")
    /\ Cardinality(Active("q1")) = 1

(* C3: stop() raises nothing and is_playing() is false once it returned;   *)
(* stop() on an object that is not playing (never played, stopped or        *)
(* finished) stops nothing and changes no field but the handle it drops,   *)
(* and a second stop() changes nothing at all; an object that holds no     *)
(* handle is not playing.                                                  *)
C3_StopLeavesIdle ==
    /\ [](last.op = "stop" =>
            /\ last.err = ""
            /\ ~IsPlaying(Object(last.obj), backend))
    /\ [](\A o \in Live : Object(o).player = None => ~IsPlaying(Object(o), backend))
    /\ [][\A o \in Live :
            (last'.op = "stop" /\ last'.obj = o /\ last' # last /\ last'.arg = "idle")
                => /\ backend' = backend
                   /\ [Object(o)' EXCEPT !.player = None] = [Object(o) EXCEPT !.player = None]
                   /\ ~IsPlaying(Object(o), backend)]_vars
    /\ [][\A id \in SoundIds :
            (last.op = "stop" /\ last.obj = id /\ SoundStop(id))
                => sounds' = sounds /\ backend' = backend]_vars
    /\ [][\A q \in SeqIds :
            (last.op = "stop" /\ last.obj = q /\ SeqStop(q))
                => seqs' = seqs /\ backend' = backend]_vars

\* stop() returned on a Sound that was playing, and its submission is gone
C3_Witness ==
    /\ last = Call("stop", "s1", "playing", "")
    /\ Active("s1") = {}

(* C4: every wait_done() returns, the backend finishing each submitted     *)
(* buffer: with no handle held it returns at once and changes nothing;     *)
(* otherwise it returns only once the handle it waits for plays no more;   *)
(* when it has returned the object holds no handle and is not playing.     *)
C4_WaitDoneReturns ==
    /\ \A o \in ObjectIds :
          (waiting # None /\ waiting[1] = o)
             ~> (waiting = None /\ last = Call("wait_done", o, "blocked", ""))
    /\ [](waiting = None /\ last.op = "wait_done" =>
            /\ last.err = ""
            /\ Object(last.obj).player = None
            /\ ~IsPlaying(Object(last.obj), backend))
    /\ [][\A o \in Live :
            (waiting = None /\ Object(o).player = None
               /\ last'.op = "wait_done" /\ last'.obj = o /\ last' # last)
                => /\ waiting' = None
                   /\ UNCHANGED <<sounds, seqs, backend>>]_vars
    /\ [][(waiting # None /\ waiting' = None) => ~backend[waiting[2]]]_vars

\* a wait_done() that blocked has returned, for a SoundSeq
C4_Witness == last = Call("wait_done", "q1", "blocked", "")

\* the buffer synthesized from all seven parameters Sound s holds
FromParameters(s) ==
    GenCustomFreq(s.pitch[2], s.seconds, s.vol_factor, s.fs, s.instrument,
                  s.instrument_strength, s.cutoff_factor).audio

Mutators ==
    {"set_pitch", "set_instrument", "set_instrument_strength", "set_volume",
     "set_cutoff_factor", "change_duration"}

(* C2: immediately after construction and immediately after a mutator      *)
(* (set_pitch, set_volume, set_instrument, set_instrument_strength,        *)
(* set_cutoff_factor, change_duration) returned, the Sound's buffer is the *)
(* buffer synthesized from its current pitch, seconds, volume, sample      *)
(* rate, instrument, instrument strength and cutoff factor.                *)
C2_BufferMatchesParameters ==
    /\ last.op = "__init__" => \A id \in Tuned : sounds[id].audio = FromParameters(sounds[id])
    /\ \A id \in Tuned :
          (last.obj = id /\ last.op \in Mutators /\ last.err = "")
              => sounds[id].audio = FromParameters(sounds[id])

\* the fields of sequence q agree with the Sound objects in its member list
SeqMatchesMembers(q) ==
    /\ q.size = SumSize(q.sounds, sounds)
    /\ q.seconds = SumSeconds(q.sounds, sounds)
    /\ q.audio = JoinAudio(q.sounds, sounds)

Rebuilds == {"__init__", "__add__", "__mul__", "change_duration"}

(* C5 as stated: in every reachable state of a SoundSeq, also after a      *)
(* change_duration of a member Sound, its size and seconds are the sums of *)
(* its members' size and seconds and its buffer is the concatenation of    *)
(* its members' current buffers in list order.                             *)
C5_AlwaysMatchesMembers == \A q \in DOMAIN seqs : SeqMatchesMembers(seqs[q])

(* C5, amended: when the constructor, + or *, the sequence's own           *)
(* change_duration or an accepted append has returned, no exception was    *)
(* raised and the sequence's size, seconds and buffer are the sums and the *)
(* concatenation over its members as they are then.                        *)
C5_MatchesMembersAfterRebuild ==
    \A q \in DOMAIN seqs :
        (/\ last.obj = q
         /\ \/ last.op \in Rebuilds
            \/ last.op = "append" /\ sounds[last.arg].fs = seqs[q].fs)
            => last.err = "" /\ SeqMatchesMembers(seqs[q])

\* the sequence's change_duration returned on a two-member sequence one of
\* whose members has had its duration and sample rate changed
C5_Witness ==
    /\ last = Call("change_duration", "q1", "", "")
    /\ Len(seqs["q1"].sounds) = 2
    /\ \E i \in 1..2 : seqs["q1"].sounds[i] = "s1"
    /\ sounds["s1"].seconds # DefaultSeconds
    /\ sounds["s1"].fs # sounds["s2"].fs

\* a computed sum is a SoundSeq
IsSeqValue(r) == r.err = "" /\ r.val # None

(* C6: for any operands A, B, C that are each a Sound or a SoundSeq,       *)
(* (A+B)+C and A+(B+C) both succeed, both are SoundSeqs whose members are  *)
(* Sounds only, and the two have the same member order and equal buffers.  *)
C6_AddTotalAssociative ==
    /\ \A name \in DOMAIN results :
          /\ IsSeqValue(results[name])
          /\ \A i \in 1..Len(results[name].val[1].sounds) :
                results[name].val[1].sounds[i] \in SoundIds
    /\ (Computed("(A+B)+C") /\ Computed("A+(B+C)")) =>
          /\ results["(A+B)+C"].val[1].sounds = results["A+(B+C)"].val[1].sounds
          /\ results["(A+B)+C"].val[1].audio = results["A+(B+C)"].val[1].audio

(* C9: in every reachable state of a SoundSeq, however it was built and    *)
(* whatever was done to its members since, every member Sound has the      *)
(* sequence's sample rate fs.                                              *)
C9_MembersShareFs ==
    \A q \in DOMAIN seqs :
        \A i \in 1..Len(seqs[q].sounds) : sounds[seqs[q].sounds[i]].fs = seqs[q].fs

\* the last call was append(last.arg) on sequence q with a Sound whose sample
\* rate is not the sequence's
MismatchedAppend(q) ==
    /\ last.op = "append"
    /\ last.obj = q
    /\ sounds[last.arg].fs # seqs[q].fs

C8_MismatchedAppendChangesNothing ==
    [][\A q \in SeqIds, id \in SoundIds :
          (q \in DOMAIN seqs /\ sounds[id].fs # seqs[q].fs /\ SeqAppend(q, id))
              => /\ seqs' = seqs
                 /\ backend' = backend
                 /\ sounds' = sounds
                 /\ waiting' = waiting]_vars

\* append of a Sound with another sample rate returned on a sequence that
\* is playing, and the sequence still plays
C8_Witness ==
    /\ MismatchedAppend("q1")
    /\ IsPlaying(seqs["q1"], backend)

\* the last call repeated a request of gen_custom_freq; gap is the number of
\* distinct other tuples requested since the tuple's previous request
Repeated == last.op = "gen_custom_freq" /\ last.obj # None

C11_EqualKeysEqualBuffers ==
    \A key \in DOMAIN results :
        /\ Cardinality(results[key]) = 1
        /\ \A value \in results[key] : value.err = "" /\ value.audio # <<>>

\* the probe key was synthesized, served from the cache and, after its
\* eviction, synthesized again
C11_Witness ==
    /\ Repeated
    /\ last.arg = ProbeKey
    /\ last.err = "miss"
    /\ requested > CacheMaxSize + 1
    /\ ProbeKey \in DOMAIN results

(* C12: with several threads calling gen_custom_freq, each distinct key is *)
(* synthesized at most once: of concurrent calls with equal arguments one  *)
(* runs the body and the others are served its cached value.               *)
C12_SynthesizedOnce == \A key \in DOMAIN syntheses : syntheses[key] <= 1

(* C13: no buffer object is shared: two Sounds never reference the same   *)
(* bytearray, also when built from equal parameters and so from the same   *)
(* cache entry, and no Sound references a bytes object the cache holds;    *)
(* regenerating or resizing one Sound's buffer leaves the other Sound's    *)
(* buffer and every cached buffer as they were.                            *)
C13_NoSharedBuffer ==
    /\ [](\A x \in SoundIds, y \in SoundIds : x # y => heap.of[x] # heap.of[y])
    /\ [](\A x \in SoundIds, key \in DOMAIN heap.cached : heap.of[x] # heap.cached[key])
    /\ [][\A x \in SoundIds : x # last'.obj => sounds'[x].audio = sounds[x].audio]_vars
    /\ [][\A key \in DOMAIN heap.cached \cap DOMAIN heap'.cached :
             heap'.at[heap'.cached[key]] = heap.at[heap.cached[key]]]_vars

\* s1 was resized and regenerated from a cache entry s2 was built from too;
\* s2 has its first buffer
C13_Witness ==
    /\ last = Call("change_duration", "s1", "", "")
    /\ sounds["s1"].seconds # sounds["s2"].seconds
    /\ sounds["s1"].pitch = sounds["s2"].pitch
    /\ sounds["s2"] = Constructed(DefaultFs, DefaultCutoffFactor)
    /\ SoundKey(sounds["s1"]) \in DOMAIN heap.cached
    /\ SoundKey(sounds["s2"]) \in DOMAIN heap.cached

(* C14: when the backend fails to take the buffer, play() on a Sound or a  *)
(* SoundSeq reports nothing to its caller, and the object is left idle:    *)
(* is_playing() is false and none of its submissions is active, whether it *)
(* was idle, playing or finished before the call.                          *)
C14_PlayFailureContained ==
    /\ last.op = "play" => last.err = ""
    /\ (last.op = "play" /\ ~IsPlaying(Object(last.obj), backend)) => Active(last.obj) = {}

(* C15: the import never ends in an error, whatever the condition of the  *)
(* pickle file: a load that fails for any reason falls back to the         *)
(* recomputation of BASIC_SOUNDS and ORGAN_SOUNDS, and when a              *)
(* recomputation has completed the file is overwritten with its tables.    *)
C15_LoadNeverFatal ==
    /\ loader.run.pc # "failed"
    /\ (last.op = "load" /\ last.err # "") => loader.run.pc = "basic"
    /\ (loader.run.pc = "loaded" /\ loader.run.from = "recomputation") => loader.file = "valid"

\* a step that constructs a Sound with note name n as its pitch or as its
\* instrument, or plays the note of that name
NamedIn(n) ==
    \/ ArgConstruct(<<"name", n>>, DefaultSeconds, DefaultFs, None)
    \/ ArgConstruct(DefaultPitch, DefaultSeconds, DefaultFs, <<"name", n>>)
    \/ \E seconds \in SecondsInputs : ArgPlayNote(n, seconds)

(* C16: every operation that receives a note name absent from the pitch    *)
(* table ends with an error: set_pitch and set_instrument of a Sound, the  *)
(* construction of a Sound with that pitch or instrument, play_note, and   *)
(* gen_custom_freq with that instrument name, which returns no buffer.     *)
C16_UnknownNameFails ==
    [][\A n \in UnknownNames :
          /\ SoundSetPitch("s1", <<"name", n>>) => last'.err # ""
          /\ SoundSetInstrument("s1", <<"name", n>>) => last'.err # ""
          /\ NamedIn(n) => last'.err # ""
          /\ \A key \in GenInputs :
                (key[5] = <<"name", n>> /\ ArgGen(key))
                   => \A value \in results'[key] : value.err # ""]_vars

\* a duration, sample rate or frequency that is zero or negative
NonPositive(frequency, seconds, fs) == frequency <= 0 \/ seconds[1] <= 0 \/ fs <= 0

(* C17: a request with a duration, a sample rate or a frequency that is    *)
(* zero or negative ends with an error: set_pitch, change_duration and the *)
(* construction of a Sound raise, and gen_custom_freq raises and returns   *)
(* no buffer.                                                              *)
C17_NonPositiveRejected ==
    [][/\ \A pitch \in PitchInputs :
             (pitch[1] = "num" /\ pitch[2] <= 0 /\ SoundSetPitch("s1", pitch))
                => last'.err # ""
       /\ \A seconds \in SecondsInputs, fs \in FsInputs :
             (NonPositive(1, seconds, fs) /\ SoundChangeDuration("s1", seconds, Some(fs)))
                => last'.err # ""
       /\ \A pitch \in PitchInputs :
             (pitch[1] = "num" /\ pitch[2] <= 0
                /\ ArgConstruct(pitch, DefaultSeconds, DefaultFs, None))
                => last'.err # ""
       /\ \A seconds \in SecondsInputs, fs \in FsInputs :
             (NonPositive(1, seconds, fs) /\ ArgConstruct(DefaultPitch, seconds, fs, None))
                => last'.err # ""
       /\ \A key \in GenInputs :
             (NonPositive(key[1], key[2], key[4]) /\ ArgGen(key))
                => \A value \in results'[key] : value.err # "" /\ value.audio = <<>>]_vars

\* the seven parameters Sound s holds
Parameters(s) ==
    <<s.pitch, s.seconds, s.vol_factor, s.fs, s.instrument, s.instrument_strength,
      s.cutoff_factor>>

\* Sound s is, but for its player, what the constructor returns for the
\* parameters s holds
AsConstructed(s) ==
    /\ s.pitch[1] = "num"
    /\ s.instrument[1] # "unset"
    /\ LET r == NewSound(s.pitch, s.seconds, s.vol_factor, s.fs,
                         IF s.instrument = <<"none">> THEN None ELSE s.instrument,
                         s.instrument_strength, s.cutoff_factor)
       IN  r.err = "" /\ r.obj = [s EXCEPT !.player = None]

(* C18: on a Sound that is as its constructor left it for the parameters   *)
(* it holds, a call of set_pitch, set_volume, set_instrument,              *)
(* set_instrument_strength, set_cutoff_factor or change_duration that      *)
(* leaves every parameter at the value already held leaves the buffer      *)
(* byte for byte what it was before the call.                              *)
C18_SameValueKeepsBuffer ==
    [][\A id \in Tuned :
          (/\ AsConstructed(sounds[id])
           /\ last'.obj = id
           /\ last'.op \in Mutators
           /\ Parameters(sounds'[id]) = Parameters(sounds[id]))
             => sounds'[id].audio = sounds[id].audio]_vars

\* change_duration has just rebuilt the buffer of a Sound that holds a
\* non-default pitch, and the Sound is as its constructor would leave it
C18_Witness ==
    /\ last = Call("change_duration", "s1", "", "")
    /\ sounds["s1"].pitch # DefaultPitch
    /\ sounds["s1"].audio # <<>>
    /\ AsConstructed(sounds["s1"])

\* the envelope value each sample of a synthesized buffer was scaled by
Envelope(audio) == [i \in 1..(Len(audio) \div 2) |-> audio[2 * i - 1][2][5]]

\* cutoff = min(n, int(fs * cutoff_factor)) of the call with the arguments key
CutoffOf(key) == Min(IntOfProduct(key[2], key[4]), IntOfProduct(key[7], key[4]))

\* envelope d with cutoff c: mirrored over the ramps, 1 between them
Symmetric(d, c) ==
    LET n == Len(d)
    IN  /\ \A i \in 0..(c - 1) : d[i + 1] = d[n - i]
        /\ \A i \in 0..(n - 1) : (c <= i /\ i <= n - 1 - c) => d[i + 1] = <<"one">>
        /\ c = 0 => \A i \in 1..n : d[i] = <<"one">>

(* C19: the envelope of every buffer gen_custom_freq returns is symmetric: *)
(* with n samples and cutoff c = min(n, int(fs * cutoff_factor)), sample i *)
(* and sample n-1-i carry the same envelope value for every i < c, also    *)
(* when c > n/2 and the two ramps overlap; every sample outside both ramps *)
(* has envelope 1; with c = 0 every sample has envelope 1.                 *)
C19_EnvelopeSymmetric ==
    \A key \in DOMAIN results :
       \A value \in results[key] :
          value.err = ""
             => /\ Len(value.audio) = 2 * IntOfProduct(key[2], key[4])
                /\ Symmetric(Envelope(value.audio), CutoffOf(key))

\* a buffer of five samples or more whose ramps overlap without covering it
C19_Witness ==
    \E key \in DOMAIN results :
       \E value \in results[key] :
          /\ value.err = ""
          /\ Len(value.audio) >= 10
          /\ 2 * CutoffOf(key) > Len(value.audio) \div 2
          /\ CutoffOf(key) < Len(value.audio) \div 2
          /\ Envelope(value.audio)[1] # <<"one">>

(* C20: with one path of control blocked in wait_done() of a Sound or a    *)
(* SoundSeq and another calling stop() and play() on the same object, in   *)
(* every interleaving: once the second path's stop() has returned, the     *)
(* handle the first path waits on no longer plays, so its wait_done()      *)
(* returns; at most one submission of the object is active; and every      *)
(* active submission is the one the object's player holds, so the handle   *)
(* is never cleared while a submission it started still plays.             *)
C20_RaceKeepsOneSubmission ==
    /\ \A o \in Raced :
          (BlockedOn(o) /\ last = Call("stop", o, "second", ""))
              => ~HandleIsPlaying(backend, waiting[2])
    /\ \A o \in Raced :
          /\ Cardinality(Active(o)) <= 1
          /\ \A k \in Active(o) : Object(o).player = Some(<<o, k>>)

\* the bands of the instrument: from, up to (excluded), note
Bands ==
    << <<<<5, 2>>, <<13, 2>>, "E4">>, <<<<13, 2>>, <<14, 1>>, "G4">>,
       <<<<14, 1>>, <<21, 1>>, "A4">>, <<<<21, 1>>, <<113, 4>>, "B4">> >>

\* the notes of the bands distance d lies in, in the order of the bands
Expected(d) ==
    LET in == SelectSeq(Bands, LAMBDA b : ~RatLess(d, b[1]) /\ RatLess(d, b[2]))
    IN  [i \in 1..Len(in) |-> in[i][3]]

\* a step that submits a buffer to the backend
Submits == \E h \in DOMAIN backend : backend'[h] /\ ~backend[h]

(* C21: in the polling loop every press of the touch sensor, from the      *)
(* is_pressed() that first reads true to the one that reads false, reads   *)
(* the distance once and calls play() at most once: of E4 for a distance   *)
(* in [2.5, 6.5), G4 for [6.5, 14), A4 for [14, 21), B4 for [21, 28.25),   *)
(* and of nothing for any other distance.  While the loop waits for the    *)
(* release no further play() is issued, and none is issued while the       *)
(* sensor is not read pressed: a buffer is submitted only by the first     *)
(* play() of a press, and the loop reads the distance only at line 27.     *)
C21_OnePlayPerPress ==
    /\ [](/\ Len(loop.issued) <= 1
          /\ loop.pc \in {"poll", "read"} => loop.issued = <<>>
          /\ loop.pc \in Played \cup {"release"}
                => /\ Len(loop.issued) <= Len(Expected(loop.us_data))
                   /\ \A i \in 1..Len(loop.issued) :
                         loop.issued[i] = Expected(loop.us_data)[i]
          /\ loop.pc = "release" => loop.issued = Expected(loop.us_data))
    /\ [][/\ (Submits \/ sounds' # sounds \/ loop'.issued \notin {loop.issued, <<>>})
                => /\ loop.pc \in Played
                   /\ loop.issued = <<>>
                   /\ loop'.issued = <<loop.pc>>
                   /\ last'.op = "play" /\ last'.obj = loop.pc
          /\ loop'.us_data \notin {loop.us_data, None} => loop.pc = "read"]_vars

\* the loop waits for the release after it played G4 for 6.5 cm, and G4 plays
C21_Witness ==
    /\ loop.pc = "release"
    /\ loop.pressed
    /\ loop.us_data = <<13, 2>>
    /\ loop.issued = <<"G4">>
    /\ last = Call("play", "G4", "idle", "")
    /\ IsPlaying(sounds["G4"], backend)


=============================================================================
